---- MODULE Spec2Model ----
(***************************************************************************)
(* The map component of BinFinder (App/Components/Home/GoogleMap.js) with  *)
(* the AsyncStorage helpers it calls (App/Services/Storage.js): the local  *)
(* marker list and its key map, the selection, the nearest-marker search,  *)
(* the remote pin snapshot feed, the path of a journey, the teardown of    *)
(* the component and the status message with its fade animation and       *)
(* timers; the path builder fetchPath on its own; and the image analysis   *)
(* of App/Screens/AnalyzeScreen.js.  Further, each with a specification of *)
(* its own: the quiz (App/Screens/Quiz.js), the score functions of         *)
(* Storage.js, the create-account screen (src/unnamed/part_003), the       *)
(* earlier map component listed in README.txt, and the save of a bin from  *)
(* the analysis screen.                                                    *)
(*                                                                         *)
(* Units.  Latitudes and longitudes are integers in tenths of a degree, so *)
(* the pin at (0.1, 0.1) is Coordinate(1, 1) and the pin at (1, 1) is      *)
(* Coordinate(10, 10).  A distance is an integer number of 1e-4 degrees    *)
(* (fixed point, rounded down); the string "x.yz" of toFixed(2) is the     *)
(* record [fixed |-> xyz] (hundredths of a km).  Times are milliseconds.   *)
(* The coordinates of a path are integers in twentieths of a degree, the   *)
(* unit in which the mean of two tenths is exact.                          *)
(* Marker ids are the values of Date.now(), remote pin ids (document ids,  *)
(* strings in the source) are integers no marker id takes.  The key "#n"   *)
(* of a markerMap entry is the integer n, and Undefined stands for the     *)
(* undefined of a failed markerMap.find.                                   *)
(***************************************************************************)
EXTENDS Integers, Sequences, FiniteSets, TLC

VARIABLES
    location,           \* useState(null): region centred on the device
    markers,            \* useState([]): the local markers, in insertion order
    markerMap,          \* useState([]): entries {key: "#n", value: marker id}
    selectedMarker,     \* useState(null): the selected marker or remote pin
    nearestMarker,      \* useState(null)
    distanceToNearest,  \* useState(null): the toFixed(2) string
    isFindingNearest,   \* useState(false)
    statusMessage,      \* useState("")
    fadeAnim,           \* Animated.Value(0): its value and running animation
    pins,               \* useState([]): the latest remote snapshot
    timers,             \* pending setTimeout callbacks of updateStatus
    storage,            \* AsyncStorage item "markers", or Null
    clock,              \* Date.now()
    mountPc,            \* position of the mount effect (lines 70-99)
    nearestCall,        \* findNearestMarker awaiting the device position
    userLocation,       \* the userLocation local of findNearestMarker
    removedIds,         \* history: ids passed to removeMarker so far
    heldMs,             \* history: time the latest message has been at
                        \* full opacity since its fade-in ended (-1: not yet)
    path,               \* useState([]): the coordinates of the journey
    navigateCalls,      \* navigateToMarker calls awaiting the device position
    centerCalls,        \* centerMapOnUser calls awaiting the device position
    mounted,            \* the component is mounted (React keeps its state)
    subscription,       \* the onSnapshot listener: open, and the number of
                        \* calls of its unsubscribe function
    delivered,          \* history: the snapshot of the latest callback
    notified,           \* history: the argument of the latest updateStatus
    loadError,          \* the error loadData caught and logged, or Null
    labels,             \* AnalyzeScreen useState([]): label annotations
    suggestion,         \* AnalyzeScreen useState('Click Analyze to start')
    isLoading,          \* AnalyzeScreen useState(false)
    mode,               \* route.params.mode
    imageUri,           \* route.params.imageUri
    analyzeCalls,       \* analyzeImage calls awaiting axios.post
    requests,           \* number of axios.post requests issued so far
    alert,              \* AnalyzeScreen: text of the latest Alert.alert
    failures,           \* history: analyzeImage calls that ended in the catch
    reply,              \* the category chain on its own: the annotations
    origin,             \* fetchPath on its own: first argument
    destination,        \* fetchPath on its own: second argument
    routePath,          \* fetchPath on its own: the value it resolved to
    usedImages,         \* Quiz.js line 83: the module-level Set of image keys
    state,              \* SwipeCard this.state: data, correctMatches, totalSwipes
    quizPc,             \* the quiz screen: unmounted, mounted, or inside the
                        \* loop of generateCards
    removeCalls,        \* removeItem calls of the mounted SwipeCard that
                        \* are awaiting updateDoc
    user,               \* Quiz.js line 50: auth.currentUser at module load
    deck,               \* history: the latest value generateCards returned
                        \* and the caller it returned to
    currentUser,        \* Storage.js: auth.currentUser
    scoreItem,          \* AsyncStorage item score_<uid>, or Null
    scoresDoc,          \* Firestore Scores/<uid>, or Null when there is none
    pointsAdded,        \* history: the sum of the points of the updateScore
                        \* calls of the signed-in user
    lastCall,           \* history: the latest syncScore or updateScore call
    username,           \* CreateAccountScreen useState('')
    email,              \* CreateAccountScreen useState('')
    password,           \* CreateAccountScreen useState(''): its characters
    confirmPassword,    \* CreateAccountScreen useState('')
    errorMessage,       \* CreateAccountScreen useState('')
    passwordError,      \* CreateAccountScreen useState('')
    showCriteria,       \* CreateAccountScreen useState(false)
    signedUp,           \* the account is created and the screen replaced
    pinList,            \* README.txt line 465: useState([]) `pins`
    selectedPin,        \* README.txt line 466: useState(null)
    pathway,            \* README.txt line 467: useState([])
    pinStatusMessage,   \* README.txt line 468: useState('') `statusMessage`
    pinPlacementMode,   \* README.txt line 470: useState(false)
    prompt,             \* the Alert of promptPinConfirmation on screen: its pin
    journeyCalls,       \* handleStartJourney calls awaiting the device position
    removedAt,          \* history: the indices handleTrashCanRemoved marked
    pinDocs,            \* Firestore pins: the number of documents whose
                        \* userId is the user's
    userPins,           \* Firestore users/<uid>: the field pins
    saveCalls,          \* AnalyzeScreen saveData: the position of the two
                        \* async calls each press started
    saveAlert           \* AnalyzeScreen saveData: text of its Alert.alert

vars == <<location, markers, markerMap, selectedMarker, nearestMarker,
          distanceToNearest, isFindingNearest, statusMessage, fadeAnim, pins,
          timers, storage, clock, mountPc, nearestCall,
          userLocation, removedIds, heldMs, path, navigateCalls, centerCalls,
          mounted, subscription, delivered, notified, loadError, labels,
          suggestion, isLoading, mode, imageUri, analyzeCalls, requests,
          alert, failures, reply, origin, destination, routePath,
          usedImages, state, quizPc, removeCalls, user, deck,
          currentUser, scoreItem, scoresDoc, pointsAdded, lastCall,
          username, email, password, confirmPassword, errorMessage,
          passwordError, showCriteria, signedUp,
          pinList, selectedPin, pathway, pinStatusMessage, pinPlacementMode,
          prompt, journeyCalls, removedAt,
          pinDocs, userPins, saveCalls, saveAlert>>

notifierVars == <<statusMessage, fadeAnim, timers, heldMs, notified>>

journeyVars == <<path, navigateCalls, centerCalls>>

feedVars == <<subscription, delivered>>

analyzeVars == <<labels, suggestion, isLoading, mode, imageUri, analyzeCalls, requests,
                 alert, failures, reply>>

builderVars == <<origin, destination, routePath>>

quizVars == <<usedImages, state, quizPc, removeCalls, user, deck>>

scoreVars == <<currentUser, scoreItem, scoresDoc, pointsAdded, lastCall>>

formVars == <<username, email, password, confirmPassword, errorMessage,
              passwordError, showCriteria, signedUp>>

listingVars == <<pinList, selectedPin, pathway, pinStatusMessage, pinPlacementMode,
                 prompt, journeyCalls, removedAt>>

saveVars == <<pinDocs, userPins, saveCalls, saveAlert>>

\* the screens and services other than the map and the analysis screen
laterVars == <<quizVars, scoreVars, formVars, listingVars, saveVars>>

\* what the handlers of the marker list leave alone
otherVars == <<journeyVars, mounted, feedVars, loadError, analyzeVars, builderVars, laterVars>>

(***************************************************************************)
(* Bounds and program constants                                            *)
(***************************************************************************)
MaxAdds == 1
MaxTimers == 1
MaxCalls == 1
MaxLabels == 2
MaxRequests == 3
GridSpan == 2

FadeMs == 300
HoldMs == 2000
KmPerDegree == 111
InitClock == 2

Null == [null |-> TRUE]
NoAnimation == [none |-> TRUE]
Undefined == 0
Infinity == 1000000000
InfinityString == [infinity |-> TRUE]
StartSuggestion == "Click Analyze to start"

Coordinate(la, lo) == [latitude |-> la, longitude |-> lo]

TapCoordinates == {Coordinate(1, 1)}
DeviceCoordinates == {Coordinate(0, 0), Coordinate(10, 0)}
MountCoordinate == Coordinate(0, 0)

\* markers a previous run of the component has saved (ids are its Date.now())
SavedMarkers ==
    <<[id |-> InitClock - 1, coordinate |-> Coordinate(0, 0), confirmed |-> TRUE],
      [id |-> InitClock, coordinate |-> Coordinate(10, 10), confirmed |-> FALSE]>>
\* JSON.stringify(value) as stored under the key "markers"
Item(value) == [json |-> value]

SavedItems == {Null, Item(SavedMarkers)}

RemotePin == [id |-> 101, latitude |-> 10, longitude |-> 10]
Snapshots == {<<>>, <<RemotePin>>}

(***************************************************************************)
(* Helpers                                                                 *)
(***************************************************************************)
Range(s) == {s[i] : i \in DOMAIN s}

Min(a, b) == IF a < b THEN a ELSE b

RECURSIVE SqrtSearch(_, _, _)
SqrtSearch(n, lo, hi) ==
    IF lo >= hi THEN lo
    ELSE LET mid == (lo + hi + 1) \div 2
         IN  IF mid * mid <= n THEN SqrtSearch(n, mid, hi)
                               ELSE SqrtSearch(n, lo, mid - 1)

\* Math.sqrt on a squared distance given in (0.1 degree)^2, result in 1e-4 degree
Sqrt(d2) == SqrtSearch(d2 * 1000000, 0, 32000)

\* the two decimals cut off instead of rounded
ToFixed2Truncating(minDistance) ==
    IF minDistance = Infinity THEN InfinityString
    ELSE [fixed |-> (minDistance * KmPerDegree) \div 100]

\* (x).toFixed(2) of minDistance * 111
ToFixed2(minDistance) ==
    IF minDistance = Infinity THEN InfinityString
    ELSE [fixed |-> (minDistance * KmPerDegree + 50) \div 100]

\* a distance that forgets the longitude term
DistanceLatitudeOnly(marker, u) ==
    Sqrt((marker.coordinate.latitude - u.latitude) * (marker.coordinate.latitude - u.latitude))

Distance(marker, u) ==
    Sqrt((marker.coordinate.latitude - u.latitude) * (marker.coordinate.latitude - u.latitude)
         + (marker.coordinate.longitude - u.longitude) * (marker.coordinate.longitude - u.longitude))

\* markerMap.find((entry) => entry.value === id)?.key
MarkerKey(map, id) ==
    IF \E i \in DOMAIN map : map[i].value = id
    THEN map[CHOOSE i \in DOMAIN map :
                 /\ map[i].value = id
                 /\ \A j \in DOMAIN map : map[j].value = id => i <= j].key
    ELSE Undefined

(***************************************************************************)
(* State setters                                                           *)
(***************************************************************************)
\* a setter that took effect whether or not the component is still mounted
SetStateUnguarded(current, value) == value

\* A useState setter (lines 41-55) called with `value` while the state is
\* `current`: React applies the update to a mounted component and drops it,
\* without rendering, once the component is unmounted.
SetState(current, value) == IF mounted THEN value ELSE current

(***************************************************************************)
(* Status message: updateStatus, the fade animation and its timers         *)
(***************************************************************************)
\* Animated.timing(fadeAnim, ...).start(cb) first stops the animation that is
\* running on fadeAnim, which invokes that animation's callback; the fade-in
\* callback of updateStatus ignores its argument and calls setTimeout.
TimersAfterStop ==
    IF fadeAnim.animation # NoAnimation /\ fadeAnim.animation.onEnd
    THEN Append(timers, HoldMs)
    ELSE timers

\* a notifier that keeps the message on show until it has run its course
updateStatusKeeping(message) ==
    /\ statusMessage' = IF fadeAnim.animation = NoAnimation /\ timers = <<>>
                         THEN SetState(statusMessage, message)
                         ELSE statusMessage
    /\ fadeAnim' = [value |-> fadeAnim.value,
                    animation |-> [toValue |-> "full", remaining |-> FadeMs, onEnd |-> TRUE]]
    /\ timers' = TimersAfterStop
    /\ heldMs' = -1
    /\ notified' = message

updateStatus(message) ==
    /\ statusMessage' = SetState(statusMessage, message)
    /\ notified' = message
    /\ fadeAnim' = [value |-> fadeAnim.value,
                    animation |-> [toValue |-> "full", remaining |-> FadeMs, onEnd |-> TRUE]]
    /\ timers' = TimersAfterStop
    /\ heldMs' = -1

Quiet == fadeAnim.animation = NoAnimation /\ timers = <<>>

CanNotify == Len(timers) < MaxTimers

\* what is due, of the notifier state n = [fadeAnim, timers, heldMs]
Pending(n) ==
    (IF n.fadeAnim.animation = NoAnimation THEN {} ELSE {n.fadeAnim.animation.remaining})
    \cup Range(n.timers)

NextDue(n) == CHOOSE d \in Pending(n) : \A e \in Pending(n) : d <= e

\* time passes up to the next due animation end or timer
Elapse(n) ==
    LET d == NextDue(n)
        a == n.fadeAnim.animation
    IN  [fadeAnim |-> IF a = NoAnimation THEN n.fadeAnim
                      ELSE [value |-> IF n.fadeAnim.value = a.toValue
                                      THEN n.fadeAnim.value ELSE "partial",
                            animation |-> [a EXCEPT !.remaining = @ - d]],
         timers |-> [i \in DOMAIN n.timers |-> n.timers[i] - d],
         heldMs |-> IF n.heldMs >= 0 /\ a = NoAnimation /\ n.fadeAnim.value = "full"
                    THEN Min(n.heldMs + d, HoldMs)
                    ELSE n.heldMs]

\* the running animation reaches its end value and its callback runs
EndAnimation(n) ==
    LET a == n.fadeAnim.animation
    IN  [fadeAnim |-> [value |-> a.toValue, animation |-> NoAnimation],
         timers |-> IF a.onEnd THEN Append(n.timers, HoldMs) ELSE n.timers,
         heldMs |-> IF a.onEnd THEN 0 ELSE n.heldMs]

\* the first setTimeout of updateStatus fires and starts the fade-out, which
\* stops the running animation as in TimersAfterStop
FireTimer(n) ==
    LET a == n.fadeAnim.animation
    IN  [fadeAnim |-> [value |-> n.fadeAnim.value,
                       animation |-> [toValue |-> "zero", remaining |-> FadeMs,
                                      onEnd |-> FALSE]],
         timers |-> IF a # NoAnimation /\ a.onEnd
                    THEN Append(Tail(n.timers), HoldMs)
                    ELSE Tail(n.timers),
         heldMs |-> n.heldMs]

AnimationDue(n) ==
    n.fadeAnim.animation # NoAnimation /\ n.fadeAnim.animation.remaining = 0

TimerDue(n) == n.timers # <<>> /\ Head(n.timers) = 0

\* no gesture until every animation and timer of the message has run
RECURSIVE RunOut(_)
RunOut(n) ==
    IF Pending(n) = {} THEN n
    ELSE IF AnimationDue(n) THEN RunOut(EndAnimation(n))
    ELSE IF TimerDue(n) THEN RunOut(FireTimer(n))
    ELSE RunOut(Elapse(n))

Notifier == [fadeAnim |-> fadeAnim, timers |-> timers, heldMs |-> heldMs]

Becomes(n) ==
    /\ fadeAnim' = n.fadeAnim
    /\ timers' = n.timers
    /\ heldMs' = n.heldMs
    /\ UNCHANGED <<location, markers, markerMap, selectedMarker, nearestMarker,
                   distanceToNearest, isFindingNearest, statusMessage, pins,
                   storage, clock, mountPc, nearestCall,
                   userLocation, removedIds, notified, otherVars>>

Tick ==
    /\ Pending(Notifier) # {}
    /\ NextDue(Notifier) > 0
    /\ Becomes(Elapse(Notifier))

AnimationEnd == AnimationDue(Notifier) /\ Becomes(EndAnimation(Notifier))

TimerFire == TimerDue(Notifier) /\ Becomes(FireTimer(Notifier))

MessageRunsOut == ~Quiet /\ Becomes(RunOut(Notifier))

(***************************************************************************)
(* Device storage                                                          *)
(***************************************************************************)
\* saveData("markers", value); a setItem that rejects is only logged by the
\* catch of lines 35-37 and leaves the item as it was: the writes here succeed
saveData(value) == storage' = Item(value)

(***************************************************************************)
(* Mount effects                                                           *)
(***************************************************************************)
\* the analysis screen and the path builder on its own, not in use
AnalyzeIdle ==
    /\ labels = <<>>
    /\ suggestion = StartSuggestion
    /\ isLoading = FALSE
    /\ mode = "trash"
    /\ imageUri = ""
    /\ analyzeCalls = <<>>
    /\ requests = 0
    /\ alert = ""
    /\ failures = 0
    /\ reply = <<>>

BuilderIdle ==
    /\ origin = Null
    /\ destination = Null
    /\ routePath = <<>>

\* the quiz module not loaded
QuizIdle ==
    /\ usedImages = {}
    /\ state = Null
    /\ quizPc = "unmounted"
    /\ removeCalls = <<>>
    /\ user = Null
    /\ deck = Null

\* the score functions never called
ScoreIdle ==
    /\ currentUser = Null
    /\ scoreItem = Null
    /\ scoresDoc = Null
    /\ pointsAdded = 0
    /\ lastCall = Null

\* the create-account screen as first rendered, lines 22-28
FormStart ==
    /\ username = ""
    /\ email = ""
    /\ password = <<>>
    /\ confirmPassword = <<>>
    /\ errorMessage = ""
    /\ passwordError = ""
    /\ showCriteria = FALSE
    /\ signedUp = FALSE

\* the map component of the README.txt listing as first rendered, lines
\* 464-470
ListingStart ==
    /\ pinList = <<>>
    /\ selectedPin = Null
    /\ pathway = <<>>
    /\ pinStatusMessage = ""
    /\ pinPlacementMode = FALSE
    /\ prompt = Null
    /\ journeyCalls = <<>>
    /\ removedAt = {}

\* nothing saved from the analysis screen
SaveIdle ==
    /\ pinDocs = 0
    /\ userPins = 0
    /\ saveCalls = <<>>
    /\ saveAlert = ""

LaterIdle == QuizIdle /\ ScoreIdle /\ FormStart /\ ListingStart /\ SaveIdle

\* the first render and the start of the effects of lines 70-112
MapStart ==
    /\ location = Null
    /\ markers = <<>>
    /\ markerMap = <<>>
    /\ selectedMarker = Null
    /\ nearestMarker = Null
    /\ distanceToNearest = Null
    /\ isFindingNearest = FALSE
    /\ statusMessage = [text |-> ""]
    /\ fadeAnim = [value |-> "zero", animation |-> NoAnimation]
    /\ pins = <<>>
    /\ timers = <<>>
    /\ clock = InitClock
    /\ mountPc = "loadData"
    /\ nearestCall = [pc |-> "idle"]
    /\ userLocation = Null
    /\ removedIds = {}
    /\ heldMs = -1
    /\ path = <<>>
    /\ navigateCalls = <<>>
    /\ centerCalls = 0
    /\ mounted = TRUE
    /\ subscription = [open |-> TRUE, unsubscribed |-> 0]
    /\ delivered = Null
    /\ notified = Null
    /\ loadError = Null

\* the map component with nothing stored, not in use
MapIdle == storage = Null /\ MapStart

Init ==
    /\ storage \in SavedItems
    /\ MapStart
    /\ AnalyzeIdle
    /\ BuilderIdle
    /\ LaterIdle

\* loadData("markers"): null when nothing is stored, undefined when the read
\* or JSON.parse throws (caught and logged)
\* a loadData that hands back nothing whatever is stored
loadDataNothing(ok) == Null

loadData(ok) == IF ok THEN storage ELSE Null

\* what the catch of loadData logs when the read or the parse has thrown
LoadError(ok) == IF ok THEN Null ELSE [error |-> "Error loading data"]

LoadMarkers ==
    /\ mountPc = "loadData"
    /\ \E ok \in BOOLEAN :
         LET savedMarkers == loadData(ok)
         IN  /\ loadError' = LoadError(ok)
             /\ IF savedMarkers # Null
                THEN /\ markers' = SetState(markers, savedMarkers.json)
                     /\ markerMap' = SetState(markerMap,
                                         [i \in DOMAIN savedMarkers.json |->
                                             [key |-> i, value |-> savedMarkers.json[i].id]])
                ELSE UNCHANGED <<markers, markerMap>>
    /\ mountPc' = "permission"
    /\ UNCHANGED <<location, selectedMarker, nearestMarker, distanceToNearest,
                   isFindingNearest, pins, storage, clock,
                   nearestCall, userLocation, removedIds, notifierVars,
                   journeyVars, mounted, feedVars, analyzeVars, builderVars, laterVars>>

PermissionAnswered ==
    /\ mountPc = "permission"
    /\ \E granted \in BOOLEAN : mountPc' = IF granted THEN "position" ELSE "stopped"
    /\ UNCHANGED <<location, markers, markerMap, selectedMarker, nearestMarker,
                   distanceToNearest, isFindingNearest, pins, storage,
                   clock, nearestCall, userLocation, removedIds, notifierVars, otherVars>>

PositionAnswered ==
    /\ mountPc = "position"
    /\ \/ location' = SetState(location, MountCoordinate) /\ mountPc' = "done"
       \/ location' = location /\ mountPc' = "stopped"
    /\ UNCHANGED <<markers, markerMap, selectedMarker, nearestMarker,
                   distanceToNearest, isFindingNearest, pins, storage,
                   clock, nearestCall, userLocation, removedIds, notifierVars, otherVars>>

\* a callback that adds the documents of the snapshot to the pins it has
SnapshotMerging ==
    /\ subscription.open
    /\ \E data \in Snapshots :
         /\ pins' = SetState(pins, pins \o SelectSeq(data, LAMBDA pin : pin \notin Range(pins)))
         /\ delivered' = Item(data)
    /\ UNCHANGED <<location, markers, markerMap, selectedMarker, nearestMarker,
                   distanceToNearest, isFindingNearest, storage,
                   clock, mountPc, nearestCall, userLocation, removedIds,
                   notifierVars, journeyVars, mounted, subscription, loadError,
                   analyzeVars, builderVars, laterVars>>

\* onSnapshot callback: setPins(data); the listener calls it with every
\* document of the collection, until unsubscribe has been called
Snapshot ==
    /\ subscription.open
    /\ \E data \in Snapshots :
         /\ pins' = SetState(pins, data)
         /\ delivered' = Item(data)
    /\ UNCHANGED <<location, markers, markerMap, selectedMarker, nearestMarker,
                   distanceToNearest, isFindingNearest, storage,
                   clock, mountPc, nearestCall, userLocation, removedIds,
                   notifierVars, journeyVars, mounted, subscription, loadError,
                   analyzeVars, builderVars, laterVars>>

\* a teardown whose effect returned no cleanup
UnmountLeaking ==
    /\ mounted
    /\ mounted' = FALSE
    /\ UNCHANGED <<location, markers, markerMap, selectedMarker, nearestMarker,
                   distanceToNearest, isFindingNearest, pins, storage,
                   clock, mountPc, nearestCall, userLocation, removedIds,
                   notifierVars, journeyVars, feedVars, loadError,
                   analyzeVars, builderVars, laterVars>>

\* The component is unmounted: React runs the cleanup the effect of lines
\* 101-112 returned, which calls unsubscribe.  Requests that are awaiting
\* the device position, animations and timers are left as they are.
Unmount ==
    /\ mounted
    /\ mounted' = FALSE
    /\ subscription' = [open |-> FALSE, unsubscribed |-> subscription.unsubscribed + 1]
    /\ UNCHANGED <<location, markers, markerMap, selectedMarker, nearestMarker,
                   distanceToNearest, isFindingNearest, pins, storage,
                   clock, mountPc, nearestCall, userLocation, removedIds,
                   notifierVars, journeyVars, delivered, loadError,
                   analyzeVars, builderVars, laterVars>>

(***************************************************************************)
(* Marker handlers                                                         *)
(***************************************************************************)
\* The handlers of the screen's gestures take `ready`: what a specification
\* asks of the status message before it lets the gesture happen.
\* handleAddMarker(coordinate); its only call site, the map's onPress, needs
\* the map to be rendered (location set)
handleAddMarker(coordinate) ==
    /\ location # Null
    /\ clock < InitClock + MaxAdds
    /\ LET newMarker == [id |-> clock + 1, coordinate |-> coordinate, confirmed |-> FALSE]
           updatedMarkers == Append(markers, newMarker)
       IN  /\ markers' = updatedMarkers
           /\ saveData(updatedMarkers)
           /\ markerMap' = Append(markerMap,
                                  [key |-> Len(markers) + 1, value |-> newMarker.id])
    /\ clock' = clock + 1
    /\ updateStatus([text |-> "Marker added!"])
    /\ UNCHANGED <<location, selectedMarker, nearestMarker, distanceToNearest,
                   isFindingNearest, pins, mountPc, nearestCall, userLocation,
                   removedIds, otherVars>>

AddMarkerTap(ready) ==
    /\ ready
    /\ \E coordinate \in TapCoordinates : handleAddMarker(coordinate)

ConfirmedCopy(marker) == [marker EXCEPT !.confirmed = TRUE]

\* "marker.id = markerId" in the test: every marker takes the branch
confirmMarkerAssigning(markerId) ==
    LET updatedMarkers == [i \in DOMAIN markers |-> ConfirmedCopy(markers[i])]
    IN  /\ markers' = updatedMarkers
        /\ saveData(updatedMarkers)
        /\ updateStatus([text |-> "Confirmed Marker",
                         key |-> MarkerKey(markerMap, markerId)])

\* saveData called with the markers of the render instead of updatedMarkers
confirmMarkerSavingStale(markerId) ==
    LET updatedMarkers == [i \in DOMAIN markers |->
                              IF markers[i].id = markerId
                              THEN ConfirmedCopy(markers[i])
                              ELSE markers[i]]
    IN  /\ markers' = updatedMarkers
        /\ saveData(markers)
        /\ updateStatus([text |-> "Confirmed Marker",
                         key |-> MarkerKey(markerMap, markerId)])

confirmMarker(markerId) ==
    LET updatedMarkers == [i \in DOMAIN markers |->
                              IF markers[i].id = markerId
                              THEN ConfirmedCopy(markers[i])
                              ELSE markers[i]]
    IN  /\ markers' = updatedMarkers
        /\ saveData(updatedMarkers)
        /\ updateStatus([text |-> "Confirmed Marker",
                         key |-> MarkerKey(markerMap, markerId)])

\* "Confirm Trash Can" button, shown while a marker is selected
ConfirmPress(ready) ==
    /\ ready
    /\ selectedMarker # Null
    /\ confirmMarker(selectedMarker.id)
    /\ selectedMarker' = Null
    /\ UNCHANGED <<location, markerMap, nearestMarker, distanceToNearest,
                   isFindingNearest, pins, clock, mountPc, nearestCall,
                   userLocation, removedIds, otherVars>>

\* a filter with the test inverted
WithoutInverted(list, markerId) == SelectSeq(list, LAMBDA marker : marker.id = markerId)

Without(list, markerId) == SelectSeq(list, LAMBDA marker : marker.id # markerId)

\* a removeMarker that leaves the entry of the marker in markerMap
removeMarkerKeepingKey(markerId) ==
    LET updatedMarkers == Without(markers, markerId)
    IN  /\ markers' = updatedMarkers
        /\ saveData(updatedMarkers)
        /\ markerMap' = markerMap
        /\ updateStatus([text |-> "Removed Marker",
                         key |-> MarkerKey(markerMap, markerId)])
        /\ selectedMarker' = Null
        /\ removedIds' = removedIds \cup {markerId}

removeMarker(markerId) ==
    LET updatedMarkers == Without(markers, markerId)
    IN  /\ markers' = updatedMarkers
        /\ saveData(updatedMarkers)
        /\ markerMap' = SelectSeq(markerMap, LAMBDA entry : entry.value # markerId)
        /\ updateStatus([text |-> "Removed Marker",
                         key |-> MarkerKey(markerMap, markerId)])
        /\ selectedMarker' = Null
        /\ removedIds' = removedIds \cup {markerId}

\* "Remove Trash Can" button, shown while a marker is selected
RemovePress(ready) ==
    /\ ready
    /\ selectedMarker # Null
    /\ removeMarker(selectedMarker.id)
    /\ UNCHANGED <<location, nearestMarker, distanceToNearest, isFindingNearest,
                   pins, clock, mountPc, nearestCall, userLocation, otherVars>>

\* onPress of a local marker on the map
MarkerPress(ready) ==
    /\ ready
    /\ location # Null
    /\ \E i \in DOMAIN markers :
         /\ selectedMarker' = markers[i]
         /\ updateStatus([text |-> "Selected Marker",
                          key |-> MarkerKey(markerMap, markers[i].id)])
    /\ UNCHANGED <<location, markers, markerMap, nearestMarker, distanceToNearest,
                   isFindingNearest, pins, storage, clock, mountPc,
                   nearestCall, userLocation, removedIds, otherVars>>

\* onPress of a remote pin on the map (the user name lookup and the
\* navigation to the details screen leave this component's pin state alone)
PinPress(ready) ==
    /\ ready
    /\ location # Null
    /\ \E i \in DOMAIN pins :
         /\ selectedMarker' = pins[i]
         /\ updateStatus([text |-> "Selected Marker", key |-> pins[i].id])
    /\ UNCHANGED <<location, markers, markerMap, nearestMarker, distanceToNearest,
                   isFindingNearest, pins, storage, clock, mountPc,
                   nearestCall, userLocation, removedIds, otherVars>>

\* onPress of the map itself (the handleAddMarker call there is commented out)
MapPress(ready) ==
    /\ ready
    /\ location # Null
    /\ selectedMarker # Null
    /\ selectedMarker' = Null
    /\ UNCHANGED <<location, markers, markerMap, nearestMarker, distanceToNearest,
                   isFindingNearest, pins, storage, clock, mountPc,
                   nearestCall, userLocation, removedIds, notifierVars, otherVars>>

(***************************************************************************)
(* findNearestMarker                                                       *)
(***************************************************************************)
\* comparisons a slip of the pen would write
CloserFlipped(distance, minDistance) == distance > minDistance

CloserOrEqual(distance, minDistance) == distance <= minDistance

Closer(distance, minDistance) == distance < minDistance

\* markers.forEach(...) of lines 237-246, from index i on
RECURSIVE Scan(_, _, _, _, _)
Scan(list, u, i, nearest, minDistance) ==
    IF i > Len(list) THEN [nearest |-> nearest, minDistance |-> minDistance]
    ELSE LET distance == Distance(list[i], u)
         IN  IF Closer(distance, minDistance)
             THEN Scan(list, u, i + 1, list[i], distance)
             ELSE Scan(list, u, i + 1, nearest, minDistance)

Nearest(list, u) == Scan(list, u, 1, Null, Infinity)

\* "Find Nearest" button up to the await: the continuation keeps the markers,
\* markerMap and distanceToNearest of the render that created the handler
FindNearestPress(ready) ==
    /\ ready
    /\ ~isFindingNearest
    /\ isFindingNearest' = TRUE
    /\ nearestCall' = [pc |-> "await", markers |-> markers, markerMap |-> markerMap,
                       distanceToNearest |-> distanceToNearest]
    /\ UNCHANGED <<location, markers, markerMap, selectedMarker, nearestMarker,
                   distanceToNearest, pins, storage, clock, mountPc,
                   userLocation, removedIds, notifierVars, otherVars>>

\* getCurrentPositionAsync resolves and the rest of findNearestMarker runs
FindNearestResolved(ready) ==
    /\ ready
    /\ nearestCall.pc = "await"
    /\ \E u \in DeviceCoordinates :
         LET found == Nearest(nearestCall.markers, u)
         IN  /\ userLocation' = u
             /\ nearestMarker' = SetState(nearestMarker, found.nearest)
             /\ selectedMarker' = SetState(selectedMarker, found.nearest)
             /\ distanceToNearest' = SetState(distanceToNearest, ToFixed2(found.minDistance))
             /\ IF found.nearest # Null
                THEN updateStatus([text |-> "Nearest Marker",
                                   key |-> MarkerKey(nearestCall.markerMap, found.nearest.id),
                                   km |-> nearestCall.distanceToNearest])
                ELSE updateStatus([text |-> "No markers available."])
    /\ isFindingNearest' = SetState(isFindingNearest, FALSE)
    /\ nearestCall' = [pc |-> "idle"]
    /\ UNCHANGED <<location, markers, markerMap, pins, storage, clock,
                   mountPc, removedIds, otherVars>>

\* getCurrentPositionAsync rejects: the handler ends at the await
FindNearestRejected(ready) ==
    /\ ready
    /\ nearestCall.pc = "await"
    /\ nearestCall' = [pc |-> "rejected"]
    /\ UNCHANGED <<location, markers, markerMap, selectedMarker, nearestMarker,
                   distanceToNearest, isFindingNearest, pins, storage,
                   clock, mountPc, userLocation, removedIds, notifierVars, otherVars>>

(***************************************************************************)
(* Journey: fetchPath, navigateToMarker, cancelJourney, centerMapOnUser    *)
(***************************************************************************)
\* a coordinate of a path: tenths of a degree as twentieths
Twentieths(c) == [latitude |-> 2 * c.latitude, longitude |-> 2 * c.longitude]

\* the path of the older listing: no point between the two ends
fetchPathDirect(from, to) == <<Twentieths(from), Twentieths(to)>>

\* fetchPath(origin, destination); (a + b) / 2 tenths is a + b twentieths
fetchPath(from, to) ==
    <<Twentieths(from),
      [latitude |-> from.latitude + to.latitude,
       longitude |-> from.longitude + to.longitude],
      Twentieths(to)>>

RemoveAt(list, i) == [j \in 1..(Len(list) - 1) |-> IF j < i THEN list[j] ELSE list[j + 1]]

\* "Navigate" button, shown while a marker is selected: navigateToMarker up
\* to its await, then setSelectedMarker(null).  The continuation keeps the
\* marker and the markerMap of the render; `cancelled` is history: whether
\* cancelJourney has run since the call was made.
NavigatePress(ready) ==
    /\ ready
    /\ selectedMarker # Null
    /\ Len(navigateCalls) < MaxCalls
    /\ navigateCalls' = Append(navigateCalls,
                               [marker |-> selectedMarker, markerMap |-> markerMap,
                                cancelled |-> FALSE])
    /\ selectedMarker' = Null
    /\ UNCHANGED <<location, markers, markerMap, nearestMarker, distanceToNearest,
                   isFindingNearest, pins, storage, clock, mountPc, nearestCall,
                   userLocation, removedIds, notifierVars, path, centerCalls,
                   mounted, feedVars, loadError, analyzeVars, builderVars, laterVars>>

\* getCurrentPositionAsync resolves and the rest of navigateToMarker runs; a
\* remote pin has no `coordinate`, and fetchPath throws on reading its
\* latitude, which ends the call before setPath
NavigateResolved(ready) ==
    /\ ready
    /\ \E i \in DOMAIN navigateCalls, u \in DeviceCoordinates :
         LET call == navigateCalls[i]
         IN  /\ IF "coordinate" \in DOMAIN call.marker
                THEN /\ path' = SetState(path, fetchPath(u, call.marker.coordinate))
                     /\ updateStatus([text |-> "Navigating to Marker",
                                      key |-> MarkerKey(call.markerMap, call.marker.id)])
                ELSE UNCHANGED <<path, notifierVars>>
             /\ navigateCalls' = RemoveAt(navigateCalls, i)
    /\ UNCHANGED <<location, markers, markerMap, selectedMarker, nearestMarker,
                   distanceToNearest, isFindingNearest, pins, storage, clock,
                   mountPc, nearestCall, userLocation, removedIds, centerCalls,
                   mounted, feedVars, loadError, analyzeVars, builderVars, laterVars>>

\* getCurrentPositionAsync rejects: navigateToMarker ends at the await
NavigateRejected ==
    /\ \E i \in DOMAIN navigateCalls : navigateCalls' = RemoveAt(navigateCalls, i)
    /\ UNCHANGED <<location, markers, markerMap, selectedMarker, nearestMarker,
                   distanceToNearest, isFindingNearest, pins, storage, clock,
                   mountPc, nearestCall, userLocation, removedIds, notifierVars,
                   path, centerCalls, mounted, feedVars, loadError, analyzeVars,
                   builderVars, laterVars>>

\* cancelJourney() (the calls still awaiting are marked, as history)
cancelJourney ==
    /\ path' = <<>>
    /\ updateStatus([text |-> "Journey canceled."])
    /\ navigateCalls' = [i \in DOMAIN navigateCalls |->
                            [navigateCalls[i] EXCEPT !.cancelled = TRUE]]

\* "Cancel Journey" button, rendered while path.length > 0
CancelPress(ready) ==
    /\ ready
    /\ Len(path) > 0
    /\ cancelJourney
    /\ UNCHANGED <<location, markers, markerMap, selectedMarker, nearestMarker,
                   distanceToNearest, isFindingNearest, pins, storage, clock,
                   mountPc, nearestCall, userLocation, removedIds, centerCalls,
                   mounted, feedVars, loadError, analyzeVars, builderVars, laterVars>>

\* "Center" button: centerMapOnUser up to its await
CenterPress(ready) ==
    /\ ready
    /\ centerCalls < MaxCalls
    /\ centerCalls' = centerCalls + 1
    /\ UNCHANGED <<location, markers, markerMap, selectedMarker, nearestMarker,
                   distanceToNearest, isFindingNearest, pins, storage, clock,
                   mountPc, nearestCall, userLocation, removedIds, notifierVars,
                   path, navigateCalls, mounted, feedVars, loadError, analyzeVars,
                   builderVars, laterVars>>

\* getCurrentPositionAsync resolves: setLocation(userLocation), then the map
\* is moved (animateToRegion changes no state of the component)
CenterResolved ==
    /\ centerCalls > 0
    /\ \E u \in DeviceCoordinates : location' = SetState(location, u)
    /\ centerCalls' = centerCalls - 1
    /\ UNCHANGED <<markers, markerMap, selectedMarker, nearestMarker,
                   distanceToNearest, isFindingNearest, pins, storage, clock,
                   mountPc, nearestCall, userLocation, removedIds, notifierVars,
                   path, navigateCalls, mounted, feedVars, loadError, analyzeVars,
                   builderVars, laterVars>>

(***************************************************************************)
(* AnalyzeScreen: analyzeImage                                             *)
(***************************************************************************)
\* descriptions the label detection returns, as it spells them
Descriptions ==
    {"plastic bag", "Aluminum can", "Newspaper", "Paper", "banana peel", "CD", "Dog",
     "Trash can"}

\* description.toLowerCase()
ToLowerCase(description) ==
    CASE description = "Aluminum can" -> "aluminum can"
      [] description = "Newspaper" -> "newspaper"
      [] description = "Paper" -> "paper"
      [] description = "CD" -> "cd"
      [] description = "Dog" -> "dog"
      [] description = "Trash can" -> "trash can"
      [] OTHER -> description

\* the keyword lists of lines 42-141, cut down to the entries that one of
\* the descriptions above can or just fails to match
landfill == {"plastic bag", "CD", "pen"}
compost == {"banana peel", "food"}
mixedPaper == {"newspaper", "paper"}
recycling == {"aluminum can", "newspaper", "bottle"}
trashCans == {"trash can", "dustbin"}

\* descriptions.some((desc) => list.includes(desc))
Some(descriptions, list) == \E i \in DOMAIN descriptions : descriptions[i] \in list

\* the chain of lines 269-272 with the paper test before the recycling test
CategoryPaperFirst(routeMode, descriptions) ==
    IF routeMode = "trash"
    THEN IF Some(descriptions, landfill) THEN "Landfill"
         ELSE IF Some(descriptions, mixedPaper) THEN "Paper"
         ELSE IF Some(descriptions, recycling) THEN "Recycle"
         ELSE IF Some(descriptions, compost) THEN "Compost"
         ELSE "Unknown"
    ELSE IF routeMode = "trashCan"
    THEN IF Some(descriptions, trashCans) THEN "Trash Can Found" ELSE "No Trash Can Found"
    ELSE "Unknown"

\* lines 267-275
Category(routeMode, descriptions) ==
    IF routeMode = "trash"
    THEN IF Some(descriptions, landfill) THEN "Landfill"
         ELSE IF Some(descriptions, recycling) THEN "Recycle"
         ELSE IF Some(descriptions, mixedPaper) THEN "Paper"
         ELSE IF Some(descriptions, compost) THEN "Compost"
         ELSE "Unknown"
    ELSE IF routeMode = "trashCan"
    THEN IF Some(descriptions, trashCans) THEN "Trash Can Found" ELSE "No Trash Can Found"
    ELSE "Unknown"

\* responses[0]?.labelAnnotations || []: up to MaxLabels annotations with a
\* description and a score (in tenths)
Annotations == [description : Descriptions, score : {5, 9}]

Responses == UNION {[1..n -> Annotations] : n \in 0..MaxLabels}

Images == {"", "data:image/jpeg;base64,AAAA"}

\* the answers of the requests of SpecAnalyze
Replies ==
    {<<>>,
     <<[description |-> "plastic bag", score |-> 9]>>,
     <<[description |-> "Dog", score |-> 9], [description |-> "Newspaper", score |-> 5]>>,
     <<[description |-> "Paper", score |-> 5], [description |-> "banana peel", score |-> 9]>>,
     <<[description |-> "CD", score |-> 9]>>,
     <<[description |-> "Trash can", score |-> 9]>>}

Modes == {"trash", "trashCan"}

InitAnalyze ==
    /\ labels = <<>>
    /\ suggestion = StartSuggestion
    /\ isLoading = FALSE
    /\ mode \in Modes
    /\ imageUri \in Images
    /\ analyzeCalls = <<>>
    /\ requests = 0
    /\ alert = ""
    /\ failures = 0
    /\ reply = <<>>
    /\ MapIdle
    /\ BuilderIdle
    /\ LaterIdle

\* lines 263-277: setLabels(annotations) and the suggestion of their
\* lower-cased descriptions
Annotated(annotations) ==
    /\ labels' = annotations
    /\ suggestion' = Category(mode, [j \in DOMAIN annotations |->
                                        ToLowerCase(annotations[j].description)])

\* the variables of the other components
elsewhereVars ==
    <<location, markers, markerMap, selectedMarker, nearestMarker, distanceToNearest,
      isFindingNearest, pins, storage, clock, mountPc, nearestCall, userLocation,
      removedIds, notifierVars, journeyVars, mounted, feedVars, loadError, builderVars>>

\* "Analyze" button without an image: lines 241-244
AnalyzeWithoutImage ==
    /\ imageUri = ""
    /\ alert' = "No image provided for analysis."
    /\ UNCHANGED <<labels, suggestion, isLoading, mode, imageUri, analyzeCalls,
                   requests, failures, reply, elsewhereVars, laterVars>>

\* "Analyze" button: analyzeImage up to the await of axios.post (the button
\* stays enabled while a request is outstanding)
AnalyzePress ==
    /\ imageUri # ""
    /\ requests < MaxRequests
    /\ Len(analyzeCalls) < MaxCalls
    /\ isLoading' = TRUE
    /\ requests' = requests + 1
    /\ analyzeCalls' = Append(analyzeCalls, requests + 1)
    /\ UNCHANGED <<labels, suggestion, mode, imageUri, alert, failures, reply,
                   elsewhereVars, laterVars>>

\* a catch that asks again
AnalyzeFailedRetrying ==
    /\ \E i \in DOMAIN analyzeCalls :
         analyzeCalls' = [analyzeCalls EXCEPT ![i] = requests + 1]
    /\ requests < MaxRequests
    /\ requests' = requests + 1
    /\ alert' = "Failed to analyze the image."
    /\ failures' = failures + 1
    /\ UNCHANGED <<labels, suggestion, isLoading, mode, imageUri, reply, elsewhereVars, laterVars>>

\* axios.post rejects: the catch alerts and the finally resets the flag
AnalyzeFailed ==
    /\ \E i \in DOMAIN analyzeCalls : analyzeCalls' = RemoveAt(analyzeCalls, i)
    /\ alert' = "Failed to analyze the image."
    /\ failures' = failures + 1
    /\ isLoading' = FALSE
    /\ UNCHANGED <<labels, suggestion, mode, imageUri, requests, reply, elsewhereVars, laterVars>>

\* axios.post resolves: lines 262-277, then the finally
AnalyzeResponded ==
    /\ \E i \in DOMAIN analyzeCalls, annotations \in Replies :
         /\ Annotated(annotations)
         /\ analyzeCalls' = RemoveAt(analyzeCalls, i)
    /\ isLoading' = FALSE
    /\ UNCHANGED <<mode, imageUri, requests, alert, failures, reply, elsewhereVars, laterVars>>

\* lines 263-277 on their own, applied once to the annotations of a reply
InitCategory ==
    /\ labels = <<>>
    /\ suggestion = StartSuggestion
    /\ isLoading = FALSE
    /\ mode \in Modes
    /\ imageUri = "data:image/jpeg;base64,AAAA"
    /\ analyzeCalls = <<>>
    /\ requests = 0
    /\ alert = ""
    /\ failures = 0
    /\ reply \in Responses
    /\ MapIdle
    /\ BuilderIdle
    /\ LaterIdle

Categorise ==
    /\ suggestion = StartSuggestion
    /\ Annotated(reply)
    /\ UNCHANGED <<isLoading, mode, imageUri, analyzeCalls, requests, alert, failures,
                   reply, elsewhereVars, laterVars>>

(***************************************************************************)
(* Specifications                                                          *)
(***************************************************************************)
Mount == LoadMarkers \/ PermissionAnswered \/ PositionAnswered

Time == Tick \/ AnimationEnd \/ TimerFire

\* The marker registry: every operation on the local markers, handleAddMarker
\* included; each status message runs its course before the next gesture.
\* (The remote pins and a rejected position request are part of SpecScreen.)
Next ==
    \/ Mount
    \/ MessageRunsOut
    \/ AddMarkerTap(Quiet)
    \/ ConfirmPress(Quiet)
    \/ RemovePress(Quiet)
    \/ MarkerPress(Quiet)
    \/ MapPress(Quiet)
    \/ FindNearestPress(Quiet)
    \/ FindNearestResolved(Quiet)

Spec == Init /\ [][Next]_vars

\* The screen as rendered (no call of handleAddMarker), its gestures
\* interleaved with the message timing and the snapshot feed.
NextScreen ==
    \/ Mount
    \/ Snapshot
    \/ Time
    \/ ConfirmPress(CanNotify)
    \/ RemovePress(CanNotify)
    \/ MarkerPress(CanNotify)
    \/ PinPress(CanNotify)
    \/ MapPress(CanNotify)
    \/ FindNearestPress(CanNotify)
    \/ FindNearestResolved(CanNotify)
    \/ FindNearestRejected(CanNotify)

SpecScreen == Init /\ [][NextScreen]_vars

\* fetchPath on its own, applied once to a pair of coordinates of a grid
\* that has both signs and both parities
Grid == {Coordinate(la, lo) : la \in -GridSpan..GridSpan, lo \in -GridSpan..GridSpan}

InitPath ==
    /\ origin \in Grid
    /\ destination \in Grid
    /\ routePath = <<>>
    /\ MapIdle
    /\ AnalyzeIdle
    /\ LaterIdle

BuildPath ==
    /\ routePath = <<>>
    /\ routePath' = fetchPath(origin, destination)
    /\ UNCHANGED <<origin, destination, location, markers, markerMap, selectedMarker,
                   nearestMarker, distanceToNearest, isFindingNearest, pins, storage,
                   clock, mountPc, nearestCall, userLocation, removedIds,
                   notifierVars, journeyVars, mounted, feedVars, loadError,
                   analyzeVars, laterVars>>

SpecPath == InitPath /\ [][BuildPath]_vars

\* The analysis screen: its Analyze button and the answers to its requests
NextAnalyze ==
    \/ AnalyzeWithoutImage
    \/ AnalyzePress
    \/ AnalyzeFailed
    \/ AnalyzeResponded

SpecAnalyze == InitAnalyze /\ [][NextAnalyze]_vars

SpecCategory == InitCategory /\ [][Categorise]_vars

\* The status messages of a journey, interleaved with the message timing
NextStatus ==
    \/ Mount
    \/ Time
    \/ MarkerPress(CanNotify)
    \/ MapPress(CanNotify)
    \/ NavigatePress(CanNotify)
    \/ NavigateResolved(CanNotify)
    \/ CancelPress(CanNotify)

SpecStatus == Init /\ [][NextStatus]_vars

\* Gestures need the mounted screen; in the two specifications below the
\* markers are those that were loaded.
OnScreen == mounted /\ Quiet

\* Journeys and the snapshot feed, up to and after the teardown.
NextJourney ==
    \/ Mount
    \/ Snapshot
    \/ Unmount
    \/ MessageRunsOut
    \/ MarkerPress(OnScreen)
    \/ PinPress(OnScreen)
    \/ NavigatePress(OnScreen)
    \/ NavigateResolved(Quiet)
    \/ NavigateRejected
    \/ CancelPress(OnScreen)

SpecJourney == Init /\ [][NextJourney]_vars

\* The three handlers that await the device position, up to and after the
\* teardown.
NextLife ==
    \/ Mount
    \/ Unmount
    \/ MessageRunsOut
    \/ MarkerPress(OnScreen)
    \/ NavigatePress(OnScreen)
    \/ NavigateResolved(Quiet)
    \/ CenterPress(OnScreen)
    \/ CenterResolved
    \/ FindNearestPress(OnScreen)
    \/ FindNearestResolved(Quiet)

SpecLife == Init /\ [][NextLife]_vars

(***************************************************************************)
(* Quiz.js: generateCards and the SwipeCard component                      *)
(***************************************************************************)
\* The program deals 10 cards (line 88) out of four folders of 10 images
\* each (line 90).  The model deals DeckSize cards out of four folders of
\* DeckSize images each, which keeps the proportion of one deck to the
\* images there are: four decks use up every image.
DeckSize == 2

\* removeItem calls that may wait for updateDoc at the same time
MaxRemoveCalls == 2

ImagesPerFolder == DeckSize

\* lines 75-80 (the labels of a card type play no part)
cardTypes ==
    <<[direction |-> "left", category |-> "Landfill", folder |-> "Landfill"],
      [direction |-> "right", category |-> "Compost", folder |-> "Compost"],
      [direction |-> "bottom", category |-> "Recycle", folder |-> "Recycle"],
      [direction |-> "top", category |-> "Mixed Paper", folder |-> "Paper"]>>

\* folder[0].toUpperCase() of the four folder names
FirstLetterUpperCase(folder) ==
    CASE folder = "Landfill" -> "L"
      [] folder = "Compost" -> "C"
      [] folder = "Recycle" -> "R"
      [] folder = "Paper" -> "P"

\* line 91: `${randomType.folder[0].toUpperCase()}${randomImageNumber}`
ImageKey(randomType, randomImageNumber) ==
    [letter |-> FirstLetterUpperCase(randomType.folder), number |-> randomImageNumber]

\* the values of the two Math.random() draws of one turn of the loop
Draws == (DOMAIN cardTypes) \X (1..ImagesPerFolder)

DrawKey(draw) == ImageKey(cardTypes[draw[1]], draw[2])

\* lines 99-103: the card pushed; its image is imageMap[folder][imageKey]
Card(draw) ==
    [direction |-> cardTypes[draw[1]].direction,
     category |-> cardTypes[draw[1]].category,
     folder |-> cardTypes[draw[1]].folder,
     image |-> DrawKey(draw)]

ImageKeys(cards) == {cards[i].image : i \in DOMAIN cards}

\* the card lists of DeckSize draws
Dealt(draws) == [i \in 1..DeckSize |-> Card(draws[i])]

\* a generateCards that pushes a card whether or not its key has been used
DecksRepeating(used) == {Dealt(draws) : draws \in [1..DeckSize -> Draws]}

\* the card lists of DeckSize draws of different keys
DistinctDecks ==
    {Dealt(draws) :
        draws \in {d \in [1..DeckSize -> Draws] :
                      \A i, j \in 1..DeckSize : i # j => DrawKey(d[i]) # DrawKey(d[j])}}

\* lines 87-106: the values the loop can return when usedImages is `used` at
\* the call: a draw whose key is in usedImages is skipped (the keys of the
\* cards pushed earlier in the call are in it), a draw whose key is not is
\* added to usedImages and pushed, until there are DeckSize cards
Decks(used) == {cards \in DistinctDecks : ImageKeys(cards) \cap used = {}}

\* generateCards returning `cards` to `caller`
generateCards(used, cards, caller) ==
    /\ cards \in Decks(used)
    /\ usedImages' = used \cup ImageKeys(cards)
    /\ deck' = [cards |-> cards, caller |-> caller]

\* lines 110-122: the state a constructor or resetGame sets
NewGame(cards) == [data |-> cards, correctMatches |-> 0, totalSwipes |-> 0]

Users == {Null, [uid |-> "u1"]}

\* everything but the quiz
beforeQuizVars ==
    <<elsewhereVars, analyzeVars, scoreVars, formVars, listingVars, saveVars>>

InitQuiz ==
    /\ usedImages = {}
    /\ state = Null
    /\ quizPc = "unmounted"
    /\ removeCalls = <<>>
    /\ user \in Users
    /\ deck = Null
    /\ SaveIdle
    /\ MapIdle
    /\ AnalyzeIdle
    /\ BuilderIdle
    /\ ScoreIdle
    /\ FormStart
    /\ ListingStart

\* navigate("Quiz"): the constructor of a new SwipeCard, lines 110-122.
\* usedImages is what the earlier instances left in it; with fewer than
\* DeckSize keys outside it the loop of line 88 uses up what is left and
\* then never finds a key that passes line 93
QuizMount ==
    /\ quizPc = "unmounted"
    /\ IF Decks(usedImages) = {}
       THEN /\ quizPc' = "generating"
            /\ usedImages' = {DrawKey(draw) : draw \in Draws}
            /\ UNCHANGED <<state, deck>>
       ELSE /\ \E cards \in Decks(usedImages) :
                 /\ generateCards(usedImages, cards, "constructor")
                 /\ state' = NewGame(cards)
            /\ quizPc' = "mounted"
    /\ UNCHANGED <<removeCalls, user, beforeQuizVars>>

\* the back button, line 219: the instance is unmounted; React drops the
\* setState of the removeItem calls it still has in flight, which change
\* nothing of the quiz from then on
QuizUnmount ==
    /\ quizPc = "mounted"
    /\ quizPc' = "unmounted"
    /\ state' = Null
    /\ removeCalls' = <<>>
    /\ UNCHANGED <<usedImages, user, deck, beforeQuizVars>>

Directions == {"left", "right", "bottom", "top"}

\* lines 139-148: the setState after the if of line 129
Removed(remainingCards, correctMatches, isCorrect) ==
    [data |-> remainingCards,
     correctMatches |-> correctMatches + (IF isCorrect THEN 1 ELSE 0),
     totalSwipes |-> state.totalSwipes + 1]

\* a card is released (Card.onPanResponderRelease, lines 265-297, calls
\* removeItem(direction) for whatever card is drawn on top): lines 124-137.
\* With a wrong direction or no user the call runs to its end at once.
\* The document the update writes to is not part of the model
SwipeRelease(direction) ==
    /\ quizPc = "mounted"
    /\ state.data # <<>>
    /\ Len(removeCalls) < MaxRemoveCalls
    /\ LET currentCard == Head(state.data)
           remainingCards == Tail(state.data)
           isCorrect == currentCard.direction = direction
       IN  IF isCorrect /\ user # Null
           THEN /\ removeCalls' = Append(removeCalls,
                                    [remainingCards |-> remainingCards,
                                     correctMatches |-> state.correctMatches])
                /\ UNCHANGED state
           ELSE /\ state' = Removed(remainingCards, state.correctMatches, isCorrect)
                /\ UNCHANGED removeCalls
    /\ UNCHANGED <<usedImages, quizPc, user, deck, beforeQuizVars>>

\* updateDoc of the oldest call answers: resolved, the call goes on to the
\* setState of lines 139-148 with the data and correctMatches it read
\* before the await; rejected, the call ends at line 131
UpdateDocAnswered(ok) ==
    /\ quizPc # "generating"
    /\ removeCalls # <<>>
    /\ LET call == Head(removeCalls)
       IN  state' = IF ok
                    THEN Removed(call.remainingCards, call.correctMatches, TRUE)
                    ELSE state
    /\ removeCalls' = Tail(removeCalls)
    /\ UNCHANGED <<usedImages, quizPc, user, deck, beforeQuizVars>>

\* "Play Again" (drawn when no card is left, line 234): resetGame, lines
\* 153-165
resetGame ==
    /\ quizPc = "mounted"
    /\ state.data = <<>>
    /\ \E cards \in Decks({}) :
         /\ generateCards({}, cards, "resetGame")
         /\ state' = NewGame(cards)
    /\ UNCHANGED <<quizPc, removeCalls, user, beforeQuizVars>>

NextQuiz ==
    \/ QuizMount
    \/ QuizUnmount
    \/ \E direction \in Directions : SwipeRelease(direction)
    \/ \E ok \in BOOLEAN : UpdateDocAnswered(ok)
    \/ resetGame

SpecQuiz == InitQuiz /\ [][NextQuiz]_vars

(***************************************************************************)
(* Storage.js: syncScore and updateScore                                   *)
(***************************************************************************)
\* the sum of the points added in a run
MaxScore == 6

PointValues == {1, 2}

\* everything but the score
beforeScoreVars ==
    <<elsewhereVars, analyzeVars, quizVars, formVars, listingVars, saveVars>>

\* a new user has no Scores document; a returning one has the document
\* syncScore made, and on a new device nothing cached
InitScore ==
    /\ currentUser \in Users
    /\ scoreItem = Null
    /\ scoresDoc \in {Null, [score |-> 0]}
    /\ pointsAdded = 0
    /\ lastCall = Null
    /\ SaveIdle
    /\ MapIdle
    /\ AnalyzeIdle
    /\ BuilderIdle
    /\ QuizIdle
    /\ FormStart
    /\ ListingStart

\* loadData(localKey): JSON.parse of the item (asked for only when there is
\* one; without one loadData returns null)
LoadScore == scoreItem.json

\* lines 107-133.  `ok` is whether Firestore answers the update; updateDoc
\* also rejects when the document does not exist, and the catch of line 130
\* only logs
updateScore(points, ok) ==
    /\ pointsAdded + points <= MaxScore
    /\ IF currentUser = Null
       THEN /\ lastCall' = [op |-> "updateScore", authenticated |-> FALSE]
            /\ UNCHANGED <<scoreItem, scoresDoc, pointsAdded>>
       ELSE LET localScore == IF scoreItem = Null THEN 0 ELSE LoadScore
                newScore == localScore + points
            IN  /\ scoreItem' = Item(newScore)
                /\ scoresDoc' = IF ok /\ scoresDoc # Null
                                THEN [scoresDoc EXCEPT !.score = newScore]
                                ELSE scoresDoc
                /\ pointsAdded' = pointsAdded + points
                /\ lastCall' = [op |-> "updateScore", authenticated |-> TRUE,
                                previous |-> localScore, points |-> points]
    /\ UNCHANGED <<currentUser, beforeScoreVars>>

\* lines 64-100.  `ok` is whether Firestore answers getDoc (and setDoc)
syncScore(ok) ==
    /\ IF currentUser = Null
       THEN /\ lastCall' = [op |-> "syncScore", authenticated |-> FALSE, returned |-> 0]
            /\ UNCHANGED <<scoreItem, scoresDoc>>
       ELSE LET localIsNull == scoreItem = Null
                localScore == LoadScore
            IN  IF ~ok
                THEN /\ lastCall' = [op |-> "syncScore", authenticated |-> TRUE,
                                     returned |-> IF localIsNull THEN 0 ELSE localScore]
                     /\ UNCHANGED <<scoreItem, scoresDoc>>
                ELSE IF scoresDoc # Null
                THEN LET firestoreScore == scoresDoc.score
                     IN  /\ scoreItem' = IF localIsNull \/ localScore # firestoreScore
                                         THEN Item(firestoreScore)
                                         ELSE scoreItem
                         /\ lastCall' = [op |-> "syncScore", authenticated |-> TRUE,
                                         returned |-> firestoreScore]
                         /\ UNCHANGED scoresDoc
                ELSE /\ scoresDoc' = [score |-> 0]
                     /\ scoreItem' = Item(0)
                     /\ lastCall' = [op |-> "syncScore", authenticated |-> TRUE,
                                     returned |-> 0]
    /\ UNCHANGED <<currentUser, pointsAdded, beforeScoreVars>>

NextScore ==
    \/ \E points \in PointValues, ok \in BOOLEAN : updateScore(points, ok)
    \/ \E ok \in BOOLEAN : syncScore(ok)

SpecScore == InitScore /\ [][NextScore]_vars

(***************************************************************************)
(* CreateAccountScreen.js (src/unnamed/part_003)                           *)
(***************************************************************************)
\* line 32
MinLength == 8

UpperCase == {"A", "B", "C", "D", "E", "F", "G", "H", "I", "J", "K", "L", "M",
              "N", "O", "P", "Q", "R", "S", "T", "U", "V", "W", "X", "Y", "Z"}

Digits == {"0", "1", "2", "3", "4", "5", "6", "7", "8", "9"}

\* texts of the password fields, as their characters
Passwords ==
    {<<>>,
     <<"A", "b", "c", "d", "e", "f", "g">>,
     <<"A", "b", "c", "d", "e", "f", "g", "1">>,
     <<"a", "b", "c", "d", "e", "f", "g", "1">>,
     <<"A", "b", "c", "d", "e", "f", "g", "h">>}

Names == {"", "ann"}

Emails == {"", "ann@example.org"}

\* answers of createUserWithEmailAndPassword / updateProfile, lines 57-76
Outcomes == {"created", "auth/email-already-in-use", "auth/invalid-email",
             "auth/weak-password", "other"}

\* everything but the create-account screen
beforeFormVars ==
    <<elsewhereVars, analyzeVars, quizVars, scoreVars, listingVars, saveVars>>

InitForm ==
    /\ FormStart
    /\ SaveIdle
    /\ MapIdle
    /\ AnalyzeIdle
    /\ BuilderIdle
    /\ QuizIdle
    /\ ScoreIdle
    /\ ListingStart

\* lines 31-35: computed at each render from the password of the state
passwordCriteria ==
    [length |-> Len(password) >= MinLength,
     uppercase |-> \E i \in DOMAIN password : password[i] \in UpperCase,
     number |-> \E i \in DOMAIN password : password[i] \in Digits]

\* lines 38-47: the parameter is not read; the criteria are those of the
\* render the handler was made in
validatePassword(value) ==
    LET allValid == passwordCriteria.length /\ passwordCriteria.uppercase
                    /\ passwordCriteria.number
    IN  IF allValid
        THEN /\ passwordError' = ""
             /\ showCriteria' = FALSE
        ELSE /\ passwordError' = "Password does not meet the required criteria."
             /\ showCriteria' = TRUE

\* lines 81-82
isFormValid ==
    /\ username # ""
    /\ email # ""
    /\ password # <<>>
    /\ confirmPassword # <<>>
    /\ passwordError = ""
    /\ errorMessage = ""

\* line 100
ChangeUsername(value) ==
    /\ ~signedUp
    /\ username' = value
    /\ UNCHANGED <<email, password, confirmPassword, errorMessage, passwordError,
                   showCriteria, signedUp, beforeFormVars>>

\* lines 112-115
ChangeEmail(value) ==
    /\ ~signedUp
    /\ email' = value
    /\ errorMessage' = ""
    /\ UNCHANGED <<username, password, confirmPassword, passwordError, showCriteria,
                   signedUp, beforeFormVars>>

\* lines 129-132
ChangePassword(value) ==
    /\ ~signedUp
    /\ password' = value
    /\ validatePassword(value)
    /\ UNCHANGED <<username, email, confirmPassword, errorMessage, signedUp,
                   beforeFormVars>>

\* lines 175-178
ChangeConfirmPassword(value) ==
    /\ ~signedUp
    /\ confirmPassword' = value
    /\ errorMessage' = ""
    /\ UNCHANGED <<username, email, password, passwordError, showCriteria, signedUp,
                   beforeFormVars>>

\* the Sign Up button (enabled with isFormValid, line 190): lines 50-78
handleSignUp(outcome) ==
    /\ ~signedUp
    /\ isFormValid
    /\ IF password # confirmPassword
       THEN /\ errorMessage' = "Passwords do not match."
            /\ UNCHANGED signedUp
       ELSE /\ signedUp' = (outcome = "created")
            /\ errorMessage' =
                 CASE outcome = "created" -> errorMessage
                   [] outcome = "auth/email-already-in-use" -> "Email already in use."
                   [] outcome = "auth/invalid-email" -> "Invalid email address."
                   [] outcome = "auth/weak-password" ->
                          "Password should be at least 6 characters."
                   [] OTHER -> "An unexpected error occurred."
    /\ UNCHANGED <<username, email, password, confirmPassword, passwordError,
                   showCriteria, beforeFormVars>>

NextForm ==
    \/ \E value \in Names : ChangeUsername(value)
    \/ \E value \in Emails : ChangeEmail(value)
    \/ \E value \in Passwords : ChangePassword(value)
    \/ \E value \in Passwords : ChangeConfirmPassword(value)
    \/ \E outcome \in Outcomes : handleSignUp(outcome)

SpecForm == InitForm /\ [][NextForm]_vars

(***************************************************************************)
(* The map component listed in README.txt (lines 463-603): pins with a     *)
(* status, handleAddPin, promptPinConfirmation, handleMarkerPress,         *)
(* handleTrashCanRemoved, handleStartJourney, handleCancelJourney.  An      *)
(* index of a pin counts from 0, as in the source.                         *)
(***************************************************************************)
\* pins placed in a run
MaxPins == 2

\* handleStartJourney calls that may wait at the same time
MaxJourneys == 1

\* everything but the listing
beforeListingVars ==
    <<elsewhereVars, analyzeVars, quizVars, scoreVars, formVars, saveVars>>

InitListing ==
    /\ ListingStart
    /\ SaveIdle
    /\ MapIdle
    /\ AnalyzeIdle
    /\ BuilderIdle
    /\ QuizIdle
    /\ ScoreIdle
    /\ FormStart

\* no Alert is on screen (the Alert of line 523 is modal: nothing under it
\* can be pressed until one of its buttons is)
Pressable == prompt = Null

\* lines 557-559 and 578-580: the list with the status of the pin at `index`
\* replaced
WithStatusAt(list, index, status) ==
    [idx \in DOMAIN list |-> IF idx - 1 = index
                             THEN [list[idx] EXCEPT !.status = status]
                             ELSE list[idx]]

\* the pin button, line 662
TogglePlacementMode ==
    /\ Pressable
    /\ pinPlacementMode' = ~pinPlacementMode
    /\ UNCHANGED <<pinList, selectedPin, pathway, pinStatusMessage, prompt,
                   journeyCalls, removedAt, beforeListingVars>>

\* lines 510-520, with the Alert of promptPinConfirmation put on screen
handleAddPin(coordinate) ==
    /\ Pressable
    /\ Len(pinList) < MaxPins
    /\ pinPlacementMode
    /\ IF \E i \in DOMAIN pinList : pinList[i].status = "placed"
       THEN /\ pinStatusMessage' = "Confirm or cancel the current pin first!"
            /\ UNCHANGED <<pinList, prompt>>
       ELSE LET newPin == [coordinate |-> coordinate, status |-> "placed"]
            IN  /\ pinList' = Append(pinList, newPin)
                /\ prompt' = newPin
                /\ UNCHANGED pinStatusMessage
    /\ UNCHANGED <<selectedPin, pathway, pinPlacementMode, journeyCalls, removedAt,
                   beforeListingVars>>

\* lines 527-533: the Cancel button of the Alert
PromptCancel ==
    /\ prompt # Null
    /\ pinList' = SelectSeq(pinList, LAMBDA p : p # prompt)
    /\ pinStatusMessage' = "Pin removed."
    /\ prompt' = Null
    /\ UNCHANGED <<selectedPin, pathway, pinPlacementMode, journeyCalls, removedAt,
                   beforeListingVars>>

\* lines 535-543: the Confirm button of the Alert
PromptConfirm ==
    /\ prompt # Null
    /\ pinList' = [idx \in DOMAIN pinList |->
                      IF pinList[idx] = prompt
                      THEN [pinList[idx] EXCEPT !.status = "confirmed"]
                      ELSE pinList[idx]]
    /\ pinPlacementMode' = FALSE
    /\ pinStatusMessage' = "Pin confirmed."
    /\ prompt' = Null
    /\ UNCHANGED <<selectedPin, pathway, journeyCalls, removedAt, beforeListingVars>>

\* lines 550-554: onPress of the marker of the pin at `index`
handleMarkerPress(index) ==
    /\ Pressable
    /\ IF pinList[index + 1].status = "confirmed"
       THEN selectedPin' = [pin |-> pinList[index + 1], index |-> index]
       ELSE UNCHANGED selectedPin
    /\ UNCHANGED <<pinList, pathway, pinStatusMessage, pinPlacementMode, prompt,
                   journeyCalls, removedAt, beforeListingVars>>

\* lines 556-563: "Trash Can Removed", drawn while a pin is selected
handleTrashCanRemoved ==
    /\ Pressable
    /\ selectedPin # Null
    /\ pinList' = WithStatusAt(pinList, selectedPin.index, "removed")
    /\ selectedPin' = Null
    /\ pinStatusMessage' = "Trash can marked as removed."
    /\ removedAt' = removedAt \cup {selectedPin.index}
    /\ UNCHANGED <<pathway, pinPlacementMode, prompt, journeyCalls, beforeListingVars>>

\* lines 565-570: "Start Journey", drawn while a pin is selected, up to the
\* await; the call keeps the pins and the selectedPin of its render
StartJourneyPress ==
    /\ Pressable
    /\ selectedPin # Null
    /\ Len(journeyCalls) < MaxJourneys
    /\ journeyCalls' = Append(journeyCalls, [pins |-> pinList, selectedPin |-> selectedPin])
    /\ UNCHANGED <<pinList, selectedPin, pathway, pinStatusMessage, pinPlacementMode,
                   prompt, removedAt, beforeListingVars>>

\* lines 571-583: the position arrives
StartJourneyResolved ==
    /\ journeyCalls # <<>>
    /\ LET call == Head(journeyCalls)
       IN  /\ pathway' = <<MountCoordinate, call.selectedPin.pin.coordinate>>
           /\ pinList' = WithStatusAt(call.pins, call.selectedPin.index, "walking")
    /\ selectedPin' = Null
    /\ pinStatusMessage' = "Journey started!"
    /\ journeyCalls' = Tail(journeyCalls)
    /\ UNCHANGED <<pinPlacementMode, prompt, removedAt, beforeListingVars>>

\* line 570 rejects: the call ends there
StartJourneyRejected ==
    /\ journeyCalls # <<>>
    /\ journeyCalls' = Tail(journeyCalls)
    /\ UNCHANGED <<pinList, selectedPin, pathway, pinStatusMessage, pinPlacementMode,
                   prompt, removedAt, beforeListingVars>>

\* lines 586-589: "Cancel Journey", drawn while there is a pathway
handleCancelJourney ==
    /\ Pressable
    /\ pathway # <<>>
    /\ pathway' = <<>>
    /\ pinStatusMessage' = "Journey cancelled."
    /\ UNCHANGED <<pinList, selectedPin, pinPlacementMode, prompt, journeyCalls,
                   removedAt, beforeListingVars>>

\* a tap on the map (line 612) or on the marker of a pin (line 625)
MapTap == \E coordinate \in TapCoordinates : handleAddPin(coordinate)

PinTap == \E index \in 0..(Len(pinList) - 1) : handleMarkerPress(index)

NextListing ==
    \/ TogglePlacementMode
    \/ MapTap
    \/ PromptCancel
    \/ PromptConfirm
    \/ PinTap
    \/ handleTrashCanRemoved
    \/ StartJourneyPress
    \/ StartJourneyResolved
    \/ StartJourneyRejected
    \/ handleCancelJourney

SpecListing == InitListing /\ [][NextListing]_vars

(***************************************************************************)
(* AnalyzeScreen.js: saveData, saveImageWithMetadata, userDBPins            *)
(***************************************************************************)
\* presses of the Save button in a run
MaxSaves == 2

\* everything but the save
beforeSaveVars == <<elsewhereVars, analyzeVars, quizVars, scoreVars, formVars, listingVars>>

\* the user has PinsBefore pin documents and a counter that agrees
PinsBefore == {0, 1}

InitSave ==
    /\ pinDocs \in PinsBefore
    /\ userPins = pinDocs
    /\ saveCalls = <<>>
    /\ saveAlert = ""
    /\ MapIdle
    /\ AnalyzeIdle
    /\ BuilderIdle
    /\ QuizIdle
    /\ ScoreIdle
    /\ FormStart
    /\ ListingStart

\* the Save button: saveData of AnalyzeScreen.js, lines 194-215.  `filled` is the condition of line 195
\* negated: location, name and at least one category are given.  Neither
\* saveImageWithMetadata nor userDBPins is awaited: both are under way when
\* the handler returns
AnalyzeSaveData(filled) ==
    /\ Len(saveCalls) < MaxSaves
    /\ IF ~filled
       THEN /\ saveAlert' = "Please fill all fields and select at least one category"
            /\ UNCHANGED saveCalls
       ELSE /\ saveCalls' = Append(saveCalls, [image |-> "upload", count |-> "getDocs",
                                               length |-> 0])
            /\ saveAlert' = "Data saved!"
    /\ UNCHANGED <<pinDocs, userPins, beforeSaveVars>>

\* saveImageWithMetadata of call i, lines 161-170: fetch, blob, uploadBytes,
\* getDownloadURL and getCurrentPositionAsync have all answered, or one of
\* them has thrown into the catch of line 189
UploadAnswered(i, ok) ==
    /\ i \in DOMAIN saveCalls
    /\ saveCalls[i].image = "upload"
    /\ saveCalls' = [saveCalls EXCEPT ![i].image = IF ok THEN "setDoc" ELSE "done"]
    /\ UNCHANGED <<pinDocs, userPins, saveAlert, beforeSaveVars>>

\* lines 172-188: setDoc(doc(db, "pins", imageId), ...) has written the pin
\* document of the user, or has thrown into the catch
PinWriteAnswered(i, ok) ==
    /\ i \in DOMAIN saveCalls
    /\ saveCalls[i].image = "setDoc"
    /\ pinDocs' = IF ok THEN pinDocs + 1 ELSE pinDocs
    /\ saveCalls' = [saveCalls EXCEPT ![i].image = "done"]
    /\ UNCHANGED <<userPins, saveAlert, beforeSaveVars>>

\* userDBPins of call i, lines 218-226: getDocs answers with the pin
\* documents of the user there are at that moment, or rejects (nothing
\* catches it: the call ends)
CountAnswered(i, ok) ==
    /\ i \in DOMAIN saveCalls
    /\ saveCalls[i].count = "getDocs"
    /\ saveCalls' = [saveCalls EXCEPT ![i].count = IF ok THEN "updateDoc" ELSE "done",
                                      ![i].length = IF ok THEN pinDocs ELSE 0]
    /\ UNCHANGED <<pinDocs, userPins, saveAlert, beforeSaveVars>>

\* lines 228 and 231-238: updateUserPins(pins.length + 1)
CounterWriteAnswered(i, ok) ==
    /\ i \in DOMAIN saveCalls
    /\ saveCalls[i].count = "updateDoc"
    /\ userPins' = IF ok THEN saveCalls[i].length + 1 ELSE userPins
    /\ saveCalls' = [saveCalls EXCEPT ![i].count = "done"]
    /\ UNCHANGED <<pinDocs, saveAlert, beforeSaveVars>>

SavePress == \E filled \in BOOLEAN : AnalyzeSaveData(filled)

NextSave ==
    \/ SavePress
    \/ \E i \in 1..MaxSaves, ok \in BOOLEAN : UploadAnswered(i, ok)
    \/ \E i \in 1..MaxSaves, ok \in BOOLEAN : PinWriteAnswered(i, ok)
    \/ \E i \in 1..MaxSaves, ok \in BOOLEAN : CountAnswered(i, ok)
    \/ \E i \in 1..MaxSaves, ok \in BOOLEAN : CounterWriteAnswered(i, ok)

SpecSave == InitSave /\ [][NextSave]_vars

(***************************************************************************)
(* Properties                                                              *)
(***************************************************************************)
Ids(list) == {list[i].id : i \in DOMAIN list}

Unconfirmed(list) == {i \in DOMAIN list : ~list[i].confirmed}

\* squared Euclidean distance in (0.1 degree)^2, exact
SquaredDistance(marker, u) ==
    (marker.coordinate.latitude - u.latitude) * (marker.coordinate.latitude - u.latitude)
    + (marker.coordinate.longitude - u.longitude) * (marker.coordinate.longitude - u.longitude)

Coordinates(list) == [i \in DOMAIN list |-> list[i].coordinate]

\* steps of the handlers, told by what only they change
AddStep == clock' # clock

SearchIssued == nearestCall.pc # "await" /\ nearestCall'.pc = "await"

SearchResolved == nearestCall.pc = "await" /\ nearestCall'.pc = "idle"

\* C1: at most one local pin is in the placed (unconfirmed) state, in every
\* reachable state of the marker list.
C1_AtMostOnePlaced == Cardinality(Unconfirmed(markers)) <= 1

\* C2: an add made while some pin is placed is rejected: the marker list is
\* the same after the call as before it, and a status message is shown.
C2_AddRejectedWhilePlaced ==
    [][(AddStep /\ Unconfirmed(markers) # {})
          => (markers' = markers /\ fadeAnim'.animation # NoAnimation)]_vars

\* C3: the search returns a marker of its candidate list whose Euclidean
\* distance to the device position is no greater than that of any other
\* candidate, and null with "No markers available." when the list is empty.
C3_NearestIsMinimal ==
    [][SearchResolved =>
          LET list == nearestCall.markers
              u == userLocation'
          IN  IF list = <<>>
              THEN /\ nearestMarker' = Null
                   /\ statusMessage' = [text |-> "No markers available."]
              ELSE /\ nearestMarker' \in Range(list)
                   /\ \A m \in Range(list) :
                        SquaredDistance(nearestMarker', u) <= SquaredDistance(m, u)]_vars

\* a search over several markers has picked one strictly nearer than another
C3_Witness ==
    /\ nearestCall.pc = "idle"
    /\ nearestMarker # Null
    /\ selectedMarker = nearestMarker
    /\ nearestMarker \in Range(markers)
    /\ \E m \in Range(markers) :
         SquaredDistance(nearestMarker, userLocation) < SquaredDistance(m, userLocation)

ScenarioPins == <<Coordinate(0, 0), Coordinate(10, 10), Coordinate(1, 1)>>
ScenarioUser == Coordinate(0, 0)

About157km(km) == km # InfinityString /\ km.fixed >= 1565 /\ km.fixed <= 1574

\* C4 as stated: with pins [(0,0), (1,1), (0.1,0.1)] and the user at (0,0) the
\* search returns the pin at (0.1,0.1), about 15.7 km away.
C4_ScenarioAsStated ==
    [][(SearchResolved /\ Coordinates(nearestCall.markers) = ScenarioPins
                       /\ userLocation' = ScenarioUser)
          => (/\ nearestMarker' # Null
              /\ nearestMarker'.coordinate = Coordinate(1, 1)
              /\ About157km(distanceToNearest'))]_vars

\* C4 amended: with pins [(0,0), (1,1), (0.1,0.1)] and the user at (0,0) the
\* search returns the pin at (0,0) with 0.00 km; the pin at (0.1,0.1) is the
\* result, with 15.70 km, when the pins are [(1,1), (0.1,0.1)].
C4_Scenario ==
    [][SearchResolved =>
          /\ (Coordinates(nearestCall.markers) = ScenarioPins /\ userLocation' = ScenarioUser)
                => (/\ nearestMarker' = nearestCall.markers[1]
                    /\ distanceToNearest' = [fixed |-> 0])
          /\ (Coordinates(nearestCall.markers) = Tail(ScenarioPins)
                 /\ userLocation' = ScenarioUser)
                => (/\ nearestMarker' = nearestCall.markers[2]
                    /\ distanceToNearest' = [fixed |-> 1570])]_vars

\* the scenario's three pins are on the map and the search, from (0,0), has
\* returned the pin at (0,0)
C4_Witness ==
    /\ Coordinates(markers) = ScenarioPins
    /\ userLocation = ScenarioUser
    /\ nearestCall.pc = "idle"
    /\ nearestMarker = markers[1]
    /\ selectedMarker = nearestMarker
    /\ distanceToNearest = [fixed |-> 0]

MinimalAt(list, u) ==
    {i \in DOMAIN list :
        \A j \in DOMAIN list : SquaredDistance(list[i], u) <= SquaredDistance(list[j], u)}

\* C5: among the candidates at the minimal distance the search returns the
\* one that comes first in the list.
C5_FirstOfTies ==
    [][(SearchResolved /\ nearestCall.markers # <<>>) =>
          LET list == nearestCall.markers
              ties == MinimalAt(list, userLocation')
          IN  nearestMarker' = list[CHOOSE i \in ties : \A j \in ties : i <= j]]_vars

\* a search has returned the first of two markers at the same minimal distance
C5_Witness ==
    /\ nearestCall.pc = "idle"
    /\ nearestMarker # Null
    /\ selectedMarker = nearestMarker
    /\ Cardinality(MinimalAt(markers, userLocation)) >= 2
    /\ \E i \in MinimalAt(markers, userLocation) :
         /\ markers[i] = nearestMarker
         /\ \A j \in MinimalAt(markers, userLocation) : i <= j

\* C6: a search issued after removeMarker(id) has exactly the remaining
\* markers as candidates, none of them a removed one, and returns one of its
\* candidates or null.
C6_RemovedIsNoCandidate ==
    [][/\ SearchIssued => (/\ nearestCall'.markers = markers
                           /\ Ids(nearestCall'.markers) \cap removedIds = {})
       /\ SearchResolved => (nearestMarker' = Null
                             \/ nearestMarker' \in Range(nearestCall.markers))]_vars

\* a local marker was removed, and a later search has returned one of the
\* markers that remain
C6_Witness ==
    /\ removedIds \cap Ids(SavedMarkers) # {}
    /\ nearestCall.pc = "idle"
    /\ nearestMarker # Null
    /\ selectedMarker = nearestMarker
    /\ nearestMarker \in Range(markers)
    /\ nearestMarker.id \notin removedIds
    /\ statusMessage.text = "Nearest Marker"

\* C7: confirmMarker with an id that matches no marker leaves the marker list
\* as it was: same markers, order, coordinates and confirmation flags.
C7_ConfirmUnknownIsNoOp ==
    [][(ConfirmPress(TRUE) /\ selectedMarker.id \notin Ids(markers)) => markers' = markers]_vars

\* confirmMarker has run with an id no marker and no key carries, over a list
\* that holds an unconfirmed marker
C7_Witness ==
    /\ statusMessage = [text |-> "Confirmed Marker", key |-> Undefined]
    /\ heldMs = -1
    /\ Unconfirmed(markers) # {}

C9_SelectedWasConfirmed == selectedMarker # Null => selectedMarker.confirmed

\* C10: no fade-out begins before the latest message has been at full opacity
\* for the whole 2000 ms after its fade-in.
C10_HeldBeforeFadeOut ==
    (/\ fadeAnim.animation # NoAnimation
     /\ fadeAnim.animation.toValue = "zero"
     /\ fadeAnim.animation.remaining = FadeMs)
        => heldMs >= HoldMs

\* C11: while the component is mounted the status message on show is the
\* argument of the latest updateStatus call, whatever animation or timer of
\* an earlier message is still pending.
C11_LatestMessageShown == (mounted /\ notified # Null) => statusMessage = notified

\* a message was set while the animation and a timer of earlier ones ran
C11_Witness ==
    /\ notified # Null
    /\ statusMessage = notified
    /\ timers # <<>>
    /\ fadeAnim.animation # NoAnimation
    /\ fadeAnim.animation.onEnd
    /\ fadeAnim.value # "zero"

\* C12: once a snapshot has been delivered the remote pins are exactly the
\* pins of the latest delivery, and a delivery leaves the local markers, the
\* key map, the selection and the path as they were.
C12_SnapshotReplaces ==
    [][/\ delivered' # Null => pins' = delivered'.json
       /\ delivered' # delivered =>
              UNCHANGED <<markers, markerMap, selectedMarker, path>>]_vars

\* an empty snapshot arrived after a pin of an earlier one had been selected,
\* while a path was on show
C12_Witness ==
    /\ delivered = Item(<<>>)
    /\ pins = <<>>
    /\ selectedMarker = RemotePin
    /\ path # <<>>
    /\ markers # <<>>

\* C13: the listener is open with no unsubscribe call while the component is
\* mounted, closed by exactly one unsubscribe call once it is unmounted, and
\* the remote pins do not change after the teardown.
C13_CancelledOnceAtTeardown ==
    [][/\ mounted' => subscription' = [open |-> TRUE, unsubscribed |-> 0]
       /\ ~mounted' => subscription' = [open |-> FALSE, unsubscribed |-> 1]
       /\ ~mounted => pins' = pins]_vars

\* torn down after a snapshot with a pin had been delivered, and the message
\* of the teardown's moment has since run out
C13_Witness ==
    /\ ~mounted
    /\ subscription.unsubscribed = 1
    /\ pins = <<RemotePin>>
    /\ mountPc \in {"done", "stopped"}

C15_OriginMeanDestination ==
    routePath # <<>> =>
        /\ Len(routePath) = 3
        /\ routePath[1] = Twentieths(origin)
        /\ routePath[3] = Twentieths(destination)
        /\ DOMAIN routePath[2] = {"latitude", "longitude"}
        /\ routePath[2].latitude = origin.latitude + destination.latitude
        /\ routePath[2].longitude = origin.longitude + destination.longitude

\* a path between two ends of opposite signs whose means are no tenths
C15_Witness ==
    /\ routePath # <<>>
    /\ origin = Coordinate(-1, 2)
    /\ destination = Coordinate(2, -1)

\* C16: the path is empty or has at least two coordinates, and a step that
\* puts a path on show completes a navigateToMarker call no cancelJourney
\* has run after, the path ending at the coordinate of that call's marker.
C16_NoPathFromCancelledRequest ==
    [][/\ path' = <<>> \/ Len(path') >= 2
       /\ (path' # path /\ path' # <<>>) =>
              \E i \in DOMAIN navigateCalls :
                  /\ ~navigateCalls[i].cancelled
                  /\ "coordinate" \in DOMAIN navigateCalls[i].marker
                  /\ path'[Len(path')] = Twentieths(navigateCalls[i].marker.coordinate)]_vars

\* the category the claim gives a set of lower-cased labels
PriorityCategory(lowered) ==
    IF lowered \cap landfill # {} THEN "Landfill"
    ELSE IF lowered \cap recycling # {} THEN "Recycle"
    ELSE IF lowered \cap mixedPaper # {} THEN "Paper"
    ELSE IF lowered \cap compost # {} THEN "Compost"
    ELSE "Unknown"

\* C17: in mode "trash" the suggestion computed from the labels on show is
\* the first of Landfill, Recycle, Paper, Compost whose keyword list holds
\* one of the lower-cased descriptions, 'Unknown' when none does; it is a
\* function of the set of descriptions, not of their order or scores.
C17_PriorityOfTheLabelSet ==
    (mode = "trash" /\ suggestion # StartSuggestion) =>
        suggestion = PriorityCategory({ToLowerCase(labels[i].description) : i \in DOMAIN labels})

\* a description of two lists, with the lower score, after one of the paper
\* list only
C17_Witness ==
    /\ mode = "trash"
    /\ reply = <<[description |-> "Paper", score |-> 9],
                 [description |-> "Newspaper", score |-> 5]>>
    /\ labels = reply
    /\ suggestion = "Recycle"

\* C18: a step into the catch of analyzeImage ends one call, issues no
\* request, leaves the labels and the suggestion as they were and resets
\* the loading flag; requests are issued one at a time, each by a press of
\* the button.
C18_FailureIsTerminal ==
    [][/\ failures' # failures =>
              /\ Len(analyzeCalls') = Len(analyzeCalls) - 1
              /\ requests' = requests
              /\ labels' = labels
              /\ suggestion' = suggestion
              /\ isLoading' = FALSE
       /\ requests' # requests =>
              /\ requests' = requests + 1
              /\ Len(analyzeCalls') = Len(analyzeCalls) + 1
              /\ failures' = failures]_vars

\* the second request of the screen failed after the first had been answered
C18_Witness ==
    /\ failures = 1
    /\ requests = 2
    /\ analyzeCalls = <<>>
    /\ ~isLoading
    /\ labels # <<>>
    /\ suggestion = "Landfill"
    /\ alert = "Failed to analyze the image."

\* the step of the mount effect in which loadData("markers") returns
LoadStep == mountPc = "loadData" /\ mountPc' # "loadData"

\* C19: when loadData returns to the mount effect of the mounted component,
\* the markers are empty if nothing is stored or the read or the parse
\* failed (the failure is logged and the effect goes on to its next step),
\* and they are the stored markers otherwise.
C19_LoadOnMount ==
    [][(LoadStep /\ mounted) =>
          /\ mountPc' = "permission"
          /\ (storage = Null \/ loadError' # Null) => markers' = <<>>
          /\ (storage # Null /\ loadError' = Null) =>
                 markers' = storage.json]_vars

\* the read of stored markers failed and the effect has gone on
C19_Witness ==
    /\ mounted
    /\ storage = Item(SavedMarkers)
    /\ loadError # Null
    /\ markers = <<>>
    /\ mountPc = "done"
    /\ location # Null

\* hundredths of a km per tenth of a degree
HundredthsPerTenth == KmPerDegree * 10

\* C20: when the search finds a marker, the value it records is the minimal
\* distance in degrees times 111, rounded to hundredths of a km: with d2 the
\* minimal squared distance in tenths of a degree, it is the integer k with
\* k - 1/2 <= 1110 * sqrt(d2) < k + 1/2, compared here in squares.
C20_KmIsDegreesTimes111 ==
    [][(SearchResolved /\ nearestCall.markers # <<>>) =>
          LET list == nearestCall.markers
              i == CHOOSE j \in MinimalAt(list, userLocation') : TRUE
              scaled == 4 * HundredthsPerTenth * HundredthsPerTenth
                          * SquaredDistance(list[i], userLocation')
              km == distanceToNearest'
          IN  /\ km # InfinityString
              /\ DOMAIN km = {"fixed"}
              /\ km.fixed >= 0
              /\ km.fixed > 0 => (2 * km.fixed - 1) * (2 * km.fixed - 1) <= scaled
              /\ scaled < (2 * km.fixed + 1) * (2 * km.fixed + 1)]_vars

\* the only marker is 0.1414... degrees away: 15.6977... km, recorded as 15.70
C20_Witness ==
    /\ nearestCall.pc = "idle"
    /\ Len(markers) = 1
    /\ nearestMarker = markers[1]
    /\ markers[1].coordinate = Coordinate(1, 1)
    /\ userLocation = Coordinate(0, 0)
    /\ distanceToNearest = [fixed |-> 1570]

C22_CardsLeftPlusSwipes ==
    quizPc = "mounted" => Len(state.data) + state.totalSwipes = DeckSize

\* C29: no call of generateCards is inside its loop with nothing left to
\* find.
C29_GenerateCardsReturns == quizPc # "generating"

\* C23: after an updateScore(points) call of a signed-in user the cached
\* score and the Firestore score both are the score cached before the call
\* plus points, and the score a syncScore call returns is the sum of the
\* points added so far.
C23_ScoreIsSumOfPoints ==
    (lastCall # Null /\ lastCall.authenticated) =>
        IF lastCall.op = "updateScore"
        THEN /\ scoreItem = Item(lastCall.previous + lastCall.points)
             /\ scoresDoc = [score |-> lastCall.previous + lastCall.points]
        ELSE lastCall.returned = pointsAdded

\* the criteria of lines 32-34 applied to the password of the state
MeetsCriteria ==
    /\ Len(password) >= MinLength
    /\ \E i \in DOMAIN password : password[i] \in UpperCase
    /\ \E i \in DOMAIN password : password[i] \in Digits

\* C24: once a password is entered, passwordError is empty exactly when the
\* password has 8 characters, an uppercase letter and a digit, and the Sign
\* Up button is enabled only for such a password.
C24_ErrorIffCriteriaFail ==
    password # <<>> =>
        /\ (passwordError = "") <=> MeetsCriteria
        /\ isFormValid => MeetsCriteria

\* the list without its k-th element
Dropped(list, k) == [i \in 1..(Len(list) - 1) |-> list[IF i < k THEN i ELSE i + 1]]

C26_RemovedStaysRemoved ==
    \A index \in removedAt :
        /\ index + 1 \in DOMAIN pinList
        /\ pinList[index + 1].status = "removed"

\* C27: on the mounted map the selected marker, when there is one, has the
\* id of a marker of the local list or of a pin of the latest snapshot.
C27_SelectionIsPresent ==
    (mounted /\ selectedMarker # Null) =>
        selectedMarker.id \in Ids(markers) \cup Ids(pins)

\* C28: markerMap has exactly one entry for each marker of the local list,
\* and no two entries have the same key.
C28_OneKeyPerMarker ==
    /\ Len(markerMap) = Len(markers)
    /\ \A id \in Ids(markers) :
           Cardinality({i \in DOMAIN markerMap : markerMap[i].value = id}) = 1
    /\ \A i, j \in DOMAIN markerMap : i # j => markerMap[i].key # markerMap[j].key

\* every call a Save press started has run to its end
SavesFinished ==
    /\ saveCalls # <<>>
    /\ \A i \in DOMAIN saveCalls :
           saveCalls[i].image = "done" /\ saveCalls[i].count = "done"

\* C30: when all the work the Save presses started has finished, the pins
\* field of the user's document is the number of the user's pin documents.
C30_CounterIsNumberOfPins == SavesFinished => userPins = pinDocs

====
